---- MODULE Spec2Model ----
(***************************************************************************)
(* Model of the mock template (mock_template.c / mock_template.h) and of   *)
(* the test runner skeleton (test_template.c).                             *)
(*                                                                         *)
(* State: the static counter struct call_counts, the two cmocka maps the   *)
(* wrappers read (the will_return queue of every wrapper and the           *)
(* expectation queue of every checked parameter), the position of the      *)
(* runner, and a record of what the last operation did (its return value,  *)
(* what it removed from the queues, what it copied).                       *)
(*                                                                         *)
(* cmocka itself is a library outside the repository; its primitives are   *)
(* modelled at the places where the wrappers call them: mock_type pops the *)
(* oldest queued value of the calling wrapper, check_expected pops the     *)
(* oldest expectation of (wrapper, parameter) and compares it, and either  *)
(* one fails the running test (a longjmp out of the wrapper) when there is *)
(* nothing queued or the comparison fails.                                 *)
(***************************************************************************)
EXTENDS Integers, Sequences, FiniteSets, TLC

VARIABLES call_counts, calls, retq, expq, last, pc

vars == <<call_counts, calls, retq, expq, last, pc>>

(***************************************************************************)
(* Bounds of the model.                                                    *)
(***************************************************************************)
\* wrapper calls explored between two resets of the counters, where the
\* counters are studied (Spec) and where the wrappers are (SpecWrap)
MaxCalls == 2
MaxWrapCalls == 1
\* values queued with will_return for one wrapper at a time
MaxQueue == 2
\* expectations queued with expect_value for one parameter at a time
MaxExpect == 1
\* largest length argument (and size of every buffer and mock data array)
MaxLen == 2

(***************************************************************************)
(* Names and input domains.                                                *)
(***************************************************************************)
\* the fields of call_counts, in declaration order
Names ==
    {"i2c_open", "i2c_close", "i2c_write", "i2c_read",
     "uart_open", "uart_close", "uart_write", "uart_read",
     "spi_open", "spi_close", "spi_transfer"}

\* the wrappers that end in mock_type(int)
Mocked == Names \ {"i2c_close", "uart_close", "spi_close"}

\* strings that are not the name of a counter
UnknownNames == {"", "i2c_opens", "I2C_OPEN"}

\* expected counts a test asks about
QueryN == 0 .. MaxCalls

\* the parameters a wrapper passes to check_expected / check_expected_ptr
ParamKeys ==
    {<<"i2c_write", "cmd">>, <<"i2c_write", "data_len">>, <<"i2c_write", "data">>,
     <<"i2c_read", "cmd">>, <<"i2c_read", "rx_len">>,
     <<"uart_write", "len">>, <<"uart_write", "data">>,
     <<"uart_read", "len">>, <<"uart_read", "timeout_ms">>,
     <<"spi_transfer", "len">>, <<"spi_transfer", "tx_buf">>}

\* NULL, as a pointer and as a queued value
NULL == 0

\* addresses of the mock data arrays a test queues (each MaxLen bytes long)
Addrs == {1}

\* receive buffer arguments: NULL or the address of the caller's buffer
Ptrs == {NULL, 1}

\* data arguments: NULL or the address of one of two arrays of the caller
DataPtrs == {NULL, 1, 2}

\* values a test queues with will_return: an error code, 0 (success, NULL),
\* and 1, which serves as return code, mock length and mock data address
Values == {-1, 0, 1}

Fds == {-1, 3}
Cmds == {1, 2}
Lens == 0 .. MaxLen
Timeouts == {0, 1}

\* the values a test expects for a parameter: one command code, no data or
\* a full buffer, one timeout, the first data array; the calls pass these
\* and other values
ExpectDomain(p) ==
    CASE p = "cmd" -> {1}
      [] p \in {"data_len", "rx_len", "len"} -> {0, MaxLen}
      [] p = "timeout_ms" -> {0}
      [] OTHER -> {1}

\* the bytes of the mock data array at address a
Mem(a) == [i \in 1 .. MaxLen |-> 16 * a + i]

\* the caller's receive buffer before a call (empty for a NULL buffer)
Buffer(ptr) == IF ptr = NULL THEN <<>> ELSE [i \in 1 .. MaxLen |-> 0]

NoQueue == [f \in Names |-> <<>>]
NoExpect == [k \in ParamKeys |-> <<>>]

(***************************************************************************)
(* The counters (mock_template.c, call_counts and the three mock_*         *)
(* functions that touch it).                                               *)
(***************************************************************************)
\* static storage: every field starts at 0
ZeroCounts == [f \in Names |-> 0]

\* a memset one field short: the last counter keeps its value
mock_reset_counters_short(cc) ==
    [f \in Names |-> IF f = "spi_transfer" THEN cc[f] ELSE 0]

\* memset(&call_counts, 0, sizeof(call_counts))
mock_reset_counters(cc) == [f \in Names |-> 0]

\* mock_init() only calls mock_reset_counters()
mock_init(cc) == mock_reset_counters(cc)

\* mock_cleanup() has an empty body
mock_cleanup(cc) == cc

\* the chain with the i2c_close branch pasted from i2c_open and not edited
mock_function_called_pasted(cc, function_name, expected_calls) ==
    IF function_name = "i2c_close" THEN cc["i2c_open"] = expected_calls
    ELSE IF function_name \in Names THEN cc[function_name] = expected_calls
    ELSE FALSE

\* the chain treating a name it does not know as a function never called
mock_function_called_zero(cc, function_name, expected_calls) ==
    IF function_name \in Names THEN cc[function_name] = expected_calls
    ELSE expected_calls = 0

\* the strcmp chain: the first matching name decides, no match gives false
mock_function_called(cc, function_name, expected_calls) ==
    IF function_name = "i2c_open" THEN cc["i2c_open"] = expected_calls
    ELSE IF function_name = "i2c_close" THEN cc["i2c_close"] = expected_calls
    ELSE IF function_name = "i2c_write" THEN cc["i2c_write"] = expected_calls
    ELSE IF function_name = "i2c_read" THEN cc["i2c_read"] = expected_calls
    ELSE IF function_name = "uart_open" THEN cc["uart_open"] = expected_calls
    ELSE IF function_name = "uart_close" THEN cc["uart_close"] = expected_calls
    ELSE IF function_name = "uart_write" THEN cc["uart_write"] = expected_calls
    ELSE IF function_name = "uart_read" THEN cc["uart_read"] = expected_calls
    ELSE IF function_name = "spi_open" THEN cc["spi_open"] = expected_calls
    ELSE IF function_name = "spi_close" THEN cc["spi_close"] = expected_calls
    ELSE IF function_name = "spi_transfer" THEN cc["spi_transfer"] = expected_calls
    ELSE FALSE

(***************************************************************************)
(* A wrapper call in progress.  fail: "" while the test runs on, "expect"   *)
(* once a check_expected failed it, "mock" once a mock_type on an empty    *)
(* queue failed it; ub: the call dereferenced a queued value that is no    *)
(* data address; cc, retq,                                                 *)
(* expq: the counters and the two cmocka maps as the call has left them;   *)
(* checked: the parameters handed to check_expected, in order; popped: the *)
(* values taken with mock_type, in order; ret: the return value; buf: the  *)
(* caller's receive buffer; copied: the bytes memcpy wrote.                *)
(***************************************************************************)
Enter(cc, rq, eq, buffer) ==
    [fail |-> "", ub |-> FALSE, cc |-> cc, retq |-> rq, expq |-> eq,
     checked |-> <<>>, popped |-> <<>>, ret |-> 0,
     buf |-> Buffer(buffer), copied |-> 0]

\* the call has not been cut short by a failure of the test
Ok(c) == c.fail = ""

\* call_counts.<f>++
count(c, f) == [c EXCEPT !.cc[f] = @ + 1]

\* check_expected(p) / check_expected_ptr(p) in wrapper f with the actual
\* value v: the oldest expectation of (f, p) is removed and compared; a
\* missing expectation or a mismatch fails the test
check_expected(c, f, p, v) ==
    IF ~Ok(c) THEN c
    ELSE LET q == c.expq[<<f, p>>] IN
         IF q = <<>>
         THEN [c EXCEPT !.fail = "expect", !.checked = Append(@, p)]
         ELSE [c EXCEPT !.fail = IF Head(q) = v THEN "" ELSE "expect",
                        !.expq[<<f, p>>] = Tail(q),
                        !.checked = Append(@, p)]

\* _mock() in wrapper f: the oldest queued value of f is removed and
\* returned; an empty queue fails the test
mock(c, f) ==
    IF ~Ok(c) THEN c
    ELSE LET q == c.retq[f] IN
         IF q = <<>>
         THEN [c EXCEPT !.fail = "mock"]
         ELSE [c EXCEPT !.retq[f] = Tail(q), !.popped = Append(@, Head(q))]

\* the value the last mock() of the call returned
Popped(c) == c.popped[Len(c.popped)]

\* mock_type(int): the queued value converted to int (the values of the
\* model are ints, which the conversion to uintmax_t and back preserves)
mock_type_int(v) == v

\* the comparison the wrong way round: the larger of the two lengths
copy_len_max(len, v) == IF v < 0 \/ len < v THEN v ELSE len

\* (len < mock_len) ? len : mock_len, with mock_len = mock_type(size_t):
\* a negative queued value converts to a size_t above every length
copy_len(len, v) == IF v < 0 \/ len < v THEN len ELSE v

\* memcpy(dst, src, n)
memcpy(dst, src, n) == [i \in 1 .. Len(dst) |-> IF i <= n THEN src[i] ELSE dst[i]]

\* return mock_type(int);
return_mock(c, f) ==
    LET c1 == mock(c, f) IN
    IF Ok(c1) THEN [c1 EXCEPT !.ret = mock_type_int(Popped(c1))] ELSE c1

\* uint8_t *mock_data = mock_ptr_type(uint8_t *);
\* if (mock_data) memcpy(rx, mock_data, n);
copy_mock_data(c, f, n) ==
    LET c1 == mock(c, f) IN
    IF ~Ok(c1) \/ Popped(c1) = NULL THEN c1
    ELSE IF Popped(c1) \notin Addrs THEN [c1 EXCEPT !.ub = TRUE]
    ELSE [c1 EXCEPT !.buf = memcpy(@, Mem(Popped(c1)), n), !.copied = n]

(***************************************************************************)
(* The I2C wrappers.                                                       *)
(***************************************************************************)
wrap_i2c_open(c) == return_mock(count(c, "i2c_open"), "i2c_open")

wrap_i2c_close(c, fd) == [count(c, "i2c_close") EXCEPT !.ret = 0]

\* i2c_write counting the call once the checks are through
wrap_i2c_write_late(c, cmd, data, data_len) ==
    LET c2 == check_expected(c, "i2c_write", "cmd", cmd)
        c3 == check_expected(c2, "i2c_write", "data_len", data_len)
        c4 == IF data # NULL /\ data_len > 0
              THEN check_expected(c3, "i2c_write", "data", data)
              ELSE c3
        c5 == IF Ok(c4) THEN count(c4, "i2c_write") ELSE c4
    IN return_mock(c5, "i2c_write")

wrap_i2c_write(c, cmd, data, data_len) ==
    LET c1 == count(c, "i2c_write")
        c2 == check_expected(c1, "i2c_write", "cmd", cmd)
        c3 == check_expected(c2, "i2c_write", "data_len", data_len)
        c4 == IF data # NULL /\ data_len > 0
              THEN check_expected(c3, "i2c_write", "data", data)
              ELSE c3
    IN return_mock(c4, "i2c_write")

wrap_i2c_read(c, cmd, rx_buffer, rx_len) ==
    LET c1 == count(c, "i2c_read")
        c2 == check_expected(c1, "i2c_read", "cmd", cmd)
        c3 == check_expected(c2, "i2c_read", "rx_len", rx_len)
        c4 == IF rx_buffer # NULL /\ rx_len > 0
              THEN copy_mock_data(c3, "i2c_read", rx_len)
              ELSE c3
    IN return_mock(c4, "i2c_read")

(***************************************************************************)
(* The UART wrappers.                                                      *)
(***************************************************************************)
wrap_uart_open(c) == return_mock(count(c, "uart_open"), "uart_open")

\* uart_close with the body of uart_open
wrap_uart_close_mock(c, fd) == return_mock(count(c, "uart_close"), "uart_close")

wrap_uart_close(c, fd) == [count(c, "uart_close") EXCEPT !.ret = 0]

\* uart_write checking the data pointer whenever it is not NULL
wrap_uart_write_nolen(c, data, len) ==
    LET c1 == count(c, "uart_write")
        c2 == check_expected(c1, "uart_write", "len", len)
        c3 == IF data # NULL
              THEN check_expected(c2, "uart_write", "data", data)
              ELSE c2
    IN return_mock(c3, "uart_write")

wrap_uart_write(c, data, len) ==
    LET c1 == count(c, "uart_write")
        c2 == check_expected(c1, "uart_write", "len", len)
        c3 == IF data # NULL /\ len > 0
              THEN check_expected(c2, "uart_write", "data", data)
              ELSE c2
    IN return_mock(c3, "uart_write")

wrap_uart_read(c, buffer, len, timeout_ms) ==
    LET c1 == count(c, "uart_read")
        c2 == check_expected(c1, "uart_read", "len", len)
        c3 == check_expected(c2, "uart_read", "timeout_ms", timeout_ms)
        c4 == mock(c3, "uart_read")
        c5 == mock(c4, "uart_read")
        n == copy_len(len, Popped(c5))
    IN IF buffer # NULL /\ len > 0
       THEN IF ~Ok(c4) THEN c4
            ELSE IF Popped(c4) = NULL THEN return_mock(c4, "uart_read")
            ELSE IF ~Ok(c5) THEN c5
            ELSE IF Popped(c4) \notin Addrs THEN [c5 EXCEPT !.ub = TRUE]
            ELSE [c5 EXCEPT !.buf = memcpy(@, Mem(Popped(c4)), n),
                            !.copied = n, !.ret = n]
       ELSE return_mock(c3, "uart_read")

(***************************************************************************)
(* The SPI wrappers.                                                       *)
(***************************************************************************)
\* spi_open with the body of spi_close
wrap_spi_open_zero(c) == [count(c, "spi_open") EXCEPT !.ret = 0]

wrap_spi_open(c) == return_mock(count(c, "spi_open"), "spi_open")

wrap_spi_close(c, fd) == [count(c, "spi_close") EXCEPT !.ret = 0]

\* spi_transfer taking the mock data whenever rx_buf is not NULL
wrap_spi_transfer_nolen(c, tx_buf, rx_buf, len) ==
    LET c1 == count(c, "spi_transfer")
        c2 == check_expected(c1, "spi_transfer", "len", len)
        c3 == IF tx_buf # NULL /\ len > 0
              THEN check_expected(c2, "spi_transfer", "tx_buf", tx_buf)
              ELSE c2
        c4 == IF rx_buf # NULL
              THEN copy_mock_data(c3, "spi_transfer", len)
              ELSE c3
    IN return_mock(c4, "spi_transfer")

wrap_spi_transfer(c, tx_buf, rx_buf, len) ==
    LET c1 == count(c, "spi_transfer")
        c2 == check_expected(c1, "spi_transfer", "len", len)
        c3 == IF tx_buf # NULL /\ len > 0
              THEN check_expected(c2, "spi_transfer", "tx_buf", tx_buf)
              ELSE c2
        c4 == IF rx_buf # NULL /\ len > 0
              THEN copy_mock_data(c3, "spi_transfer", len)
              ELSE c3
    IN return_mock(c4, "spi_transfer")

(***************************************************************************)
(* The runner hooks of test_template.c: each returns 0 and touches nothing. *)
(***************************************************************************)
global_setup(cc) == [cc |-> cc, ret |-> 0]

global_teardown(cc) == [cc |-> cc, ret |-> 0]

\* test_setup with the mock_init() of its comment switched on
test_setup_init(cc) == [cc |-> mock_init(cc), ret |-> 0]

test_setup(cc) == [cc |-> cc, ret |-> 0]

test_teardown(cc) == [cc |-> cc, ret |-> 0]

(***************************************************************************)
(* The record of the last operation.                                       *)
(***************************************************************************)
Did(op, name, args, ret, ans) ==
    [op |-> op, name |-> name, args |-> args, fail |-> "", ret |-> ret,
     ans |-> ans, checked |-> <<>>, popped |-> <<>>, buf |-> <<>>, copied |-> 0]

\* the sum of the eleven counters of cc
TotalCount(cc) ==
    cc["i2c_open"] + cc["i2c_close"] + cc["i2c_write"] + cc["i2c_read"]
    + cc["uart_open"] + cc["uart_close"] + cc["uart_write"] + cc["uart_read"]
    + cc["spi_open"] + cc["spi_close"] + cc["spi_transfer"]

\* wrapper calls made since the counters were last reset
TotalCalls == TotalCount(calls)

\* no wrapper other than f has a value or an expectation queued
OnlyPending(f) ==
    /\ \A g \in Names \ {f} : retq[g] = <<>>
    /\ \A k \in ParamKeys : k[1] # f => expq[k] = <<>>

Init ==
    /\ call_counts = ZeroCounts
    /\ calls = ZeroCounts
    /\ retq = NoQueue
    /\ expq = NoExpect
    /\ last = Did("main", "", <<>>, 0, FALSE)
    /\ pc = "start"

(***************************************************************************)
(* The runner (main: cmocka_run_group_tests with the four hooks).  A test  *)
(* body runs between test_setup and test_teardown; cmocka frees both maps  *)
(* when the body returns or fails.  The number of tests is not tracked.    *)
(***************************************************************************)
Hook(from, to, op, r) ==
    /\ pc = from
    /\ pc' = IF r.ret = 0 THEN to ELSE "done"
    /\ call_counts' = r.cc
    /\ last' = Did(op, "", <<>>, r.ret, FALSE)
    /\ UNCHANGED <<calls, retq, expq>>

run_global_setup == Hook("start", "between", "global_setup", global_setup(call_counts))

run_test_setup == Hook("between", "test", "test_setup", test_setup(call_counts))

run_test_teardown ==
    Hook("teardown", "between", "test_teardown", test_teardown(call_counts))

run_global_teardown ==
    Hook("between", "done", "global_teardown", global_teardown(call_counts))

\* the test body returns
test_return ==
    /\ pc = "test"
    /\ pc' = "teardown"
    /\ retq' = NoQueue
    /\ expq' = NoExpect
    /\ last' = Did("test_return", "", <<>>, 0, FALSE)
    /\ UNCHANGED <<call_counts, calls>>

(***************************************************************************)
(* What a test body does: it queues values and expectations, resets and    *)
(* queries the counters, and (through the code under test) calls wrappers. *)
(***************************************************************************)
will_return(f, v) ==
    /\ pc = "test"
    /\ OnlyPending(f)
    /\ retq' = [retq EXCEPT ![f] = Append(@, v)]
    /\ last' = Did("will_return", "", <<>>, 0, FALSE)
    /\ UNCHANGED <<call_counts, calls, expq, pc>>

expect_value(f, p, v) ==
    /\ pc = "test"
    /\ OnlyPending(f)
    /\ expq' = [expq EXCEPT ![<<f, p>>] = Append(@, v)]
    /\ last' = Did("expect_value", "", <<>>, 0, FALSE)
    /\ UNCHANGED <<call_counts, calls, retq, pc>>

call_mock_init ==
    /\ pc = "test"
    /\ call_counts' = mock_init(call_counts)
    /\ calls' = ZeroCounts
    /\ last' = Did("mock_init", "", <<TotalCount(call_counts)>>, 0, FALSE)
    /\ UNCHANGED <<retq, expq, pc>>

call_mock_reset_counters ==
    /\ pc = "test"
    /\ call_counts' = mock_reset_counters(call_counts)
    /\ calls' = ZeroCounts
    /\ last' = Did("mock_reset_counters", "", <<TotalCount(call_counts)>>, 0, FALSE)
    /\ UNCHANGED <<retq, expq, pc>>

call_mock_cleanup ==
    /\ pc = "test"
    /\ call_counts' = mock_cleanup(call_counts)
    /\ last' = Did("mock_cleanup", "", <<>>, 0, FALSE)
    /\ UNCHANGED <<calls, retq, expq, pc>>

call_mock_function_called(function_name, expected_calls) ==
    /\ pc = "test"
    /\ last' = Did("mock_function_called", function_name, <<expected_calls>>, 0,
                   mock_function_called(call_counts, function_name, expected_calls))
    /\ UNCHANGED <<call_counts, calls, retq, expq, pc>>

\* a wrapper call that ran to c: the counters and maps are as the call left
\* them; a failed test is left by longjmp and cmocka frees both maps
Finish(c, f, args) ==
    /\ pc = "test"
    /\ ~c.ub
    /\ call_counts' = c.cc
    /\ calls' = [calls EXCEPT ![f] = @ + 1]
    /\ retq' = IF Ok(c) THEN c.retq ELSE NoQueue
    /\ expq' = IF Ok(c) THEN c.expq ELSE NoExpect
    /\ pc' = IF Ok(c) THEN pc ELSE "teardown"
    /\ last' = [op |-> "call", name |-> f, args |-> args, fail |-> c.fail,
                ret |-> c.ret, ans |-> FALSE, checked |-> c.checked,
                popped |-> c.popped, buf |-> c.buf, copied |-> c.copied]

Now(buffer) == Enter(call_counts, retq, expq, buffer)

call_i2c_open == Finish(wrap_i2c_open(Now(NULL)), "i2c_open", <<>>)

call_i2c_close(fd) == Finish(wrap_i2c_close(Now(NULL), fd), "i2c_close", <<fd>>)

call_i2c_write(cmd, data, data_len) ==
    Finish(wrap_i2c_write(Now(NULL), cmd, data, data_len), "i2c_write",
           <<cmd, data, data_len>>)

call_i2c_read(cmd, rx_buffer, rx_len) ==
    Finish(wrap_i2c_read(Now(rx_buffer), cmd, rx_buffer, rx_len), "i2c_read",
           <<cmd, rx_buffer, rx_len>>)

call_uart_open == Finish(wrap_uart_open(Now(NULL)), "uart_open", <<>>)

call_uart_close(fd) == Finish(wrap_uart_close(Now(NULL), fd), "uart_close", <<fd>>)

call_uart_write(data, len) ==
    Finish(wrap_uart_write(Now(NULL), data, len), "uart_write", <<data, len>>)

call_uart_read(buffer, len, timeout_ms) ==
    Finish(wrap_uart_read(Now(buffer), buffer, len, timeout_ms), "uart_read",
           <<buffer, len, timeout_ms>>)

call_spi_open == Finish(wrap_spi_open(Now(NULL)), "spi_open", <<>>)

call_spi_close(fd) == Finish(wrap_spi_close(Now(NULL), fd), "spi_close", <<fd>>)

call_spi_transfer(tx_buf, rx_buf, len) ==
    Finish(wrap_spi_transfer(Now(rx_buf), tx_buf, rx_buf, len), "spi_transfer",
           <<tx_buf, rx_buf, len>>)

Runner ==
    \/ run_global_setup
    \/ run_test_setup
    \/ run_test_teardown
    \/ run_global_teardown
    \/ test_return

Counters ==
    \/ call_mock_init
    \/ call_mock_reset_counters
    \/ call_mock_cleanup

\* the wrapper calls, while fewer than cap were made since the last reset;
\* fds: the descriptors passed to the close wrappers
Wrappers(cap, fds) ==
    \/ TotalCalls < cap /\ call_i2c_open
    \/ TotalCalls < cap /\ \E fd \in fds : call_i2c_close(fd)
    \/ TotalCalls < cap /\ \E cmd \in Cmds, data \in DataPtrs, n \in Lens :
          call_i2c_write(cmd, data, n)
    \/ TotalCalls < cap /\ \E cmd \in Cmds, rx \in Ptrs, n \in Lens :
          call_i2c_read(cmd, rx, n)
    \/ TotalCalls < cap /\ call_uart_open
    \/ TotalCalls < cap /\ \E fd \in fds : call_uart_close(fd)
    \/ TotalCalls < cap /\ \E data \in DataPtrs, n \in Lens : call_uart_write(data, n)
    \/ TotalCalls < cap /\ \E rx \in Ptrs, n \in Lens, t \in Timeouts :
          call_uart_read(rx, n, t)
    \/ TotalCalls < cap /\ call_spi_open
    \/ TotalCalls < cap /\ \E fd \in fds : call_spi_close(fd)
    \/ TotalCalls < cap /\ \E tx \in DataPtrs, rx \in Ptrs, n \in Lens :
          call_spi_transfer(tx, rx, n)

\* what a test body queues before it calls a wrapper
Arrange ==
    \/ \E f \in Mocked, v \in Values :
          /\ TotalCalls = 0
          /\ Len(retq[f]) < MaxQueue
          /\ will_return(f, v)
    \/ \E k \in ParamKeys : \E v \in ExpectDomain(k[2]) :
          /\ TotalCalls = 0
          /\ Len(expq[k]) < MaxExpect
          /\ expect_value(k[1], k[2], v)

\* one return code queued for one open wrapper, nothing else pending
ArrangeOne ==
    \E f \in {"i2c_open", "uart_open", "spi_open"}, v \in Values :
        retq[f] = <<>> /\ will_return(f, v)

\* the queries of a test, made once nothing is left queued
Queries ==
    \E name \in Names \cup UnknownNames, n \in QueryN :
        retq = NoQueue /\ call_mock_function_called(name, n)

Next ==
    \/ Runner
    \/ Counters
    \/ Queries
    \/ Wrappers(MaxCalls, Fds)
    \/ ArrangeOne

Spec == Init /\ [][Next]_vars

\* one test body that queues what it needs and then calls wrappers: the
\* state when the first test body starts, both hooks before it having run
InitWrap ==
    /\ call_counts = ZeroCounts
    /\ calls = ZeroCounts
    /\ retq = NoQueue
    /\ expq = NoExpect
    /\ last = Did("test_setup", "", <<>>, 0, FALSE)
    /\ pc = "test"

NextWrap ==
    \/ Arrange
    \/ Wrappers(MaxWrapCalls, {3})

SpecWrap == InitWrap /\ [][NextWrap]_vars

(***************************************************************************)
(* Properties.                                                             *)
(***************************************************************************)
\* the last step was a call of wrapper f
IsCall(f) == last.op = "call" /\ last.name = f

\* s is the beginning of t
IsPrefix(s, t) == Len(s) <= Len(t) /\ \A i \in 1 .. Len(s) : s[i] = t[i]

\* min(len, mock length), the mock length being the queued value as a size_t
MinLen(len, v) == IF v >= 0 /\ v <= len THEN v ELSE len

\* expected counts asked about in the properties
AnyN == -1 .. MaxCalls + 1

ResetOps == {"mock_init", "mock_reset_counters"}

HookOps == {"global_setup", "test_setup", "test_teardown", "global_teardown"}

\* C1: for each of the 11 known names and every n, in every state reached
\* by wrapper calls, resets and queries, mock_function_called(name, n) is
\* true exactly when n is the number of calls of the wrapper of that name
\* made since the last mock_init / mock_reset_counters (or since the start);
\* the answer a query step records is that answer.
C1_CalledIffCount ==
    /\ \A name \in Names : \A n \in AnyN :
          mock_function_called(call_counts, name, n) <=> (n = calls[name])
    /\ (last.op = "mock_function_called" /\ last.name \in Names)
          => (last.ans <=> (last.args[1] = calls[last.name]))

\* a query answered true for a wrapper called as often as the bound allows
C1_Witness ==
    /\ last.op = "mock_function_called"
    /\ last.name = "spi_transfer"
    /\ last.args = <<MaxCalls>>
    /\ last.ans
    /\ calls["spi_transfer"] = MaxCalls

\* C2: a step of mock_reset_counters or of mock_init leaves all 11 counters
\* at zero whatever they were, so that right after it the query answers true
\* for 0 and false for every other n, for every known name; the two functions
\* have the same effect in every state; and a second reset in a row changes
\* nothing.
C2_ResetZeroes ==
    [][/\ mock_init(call_counts) = mock_reset_counters(call_counts)
       /\ last'.op \in ResetOps =>
            /\ \A name \in Names : \A n \in AnyN :
                  mock_function_called(call_counts', name, n) <=> (n = 0)
            /\ UNCHANGED <<retq, expq, pc>>
            /\ last.op \in ResetOps => call_counts' = call_counts]_vars

\* mock_init has just run on counters that were not zero
C2_Witness ==
    /\ last.op = "mock_init"
    /\ last.args = <<MaxCalls>>
    /\ \A name \in Names : call_counts[name] = 0

\* C3: for a name that is none of the 11 known names the query answers
\* false for every n, 0 included, and the query changes no counter.
C3_UnknownFalse ==
    [][/\ \A name \in UnknownNames : \A n \in AnyN :
             ~mock_function_called(call_counts, name, n)
       /\ last'.op = "mock_function_called" =>
             /\ call_counts' = call_counts
             /\ last'.name \notin Names => ~last'.ans]_vars

\* an unknown name was asked about with n = 0 and the answer was false
C3_Witness ==
    /\ last.op = "mock_function_called"
    /\ last.name = "i2c_opens"
    /\ last.args = <<0>>
    /\ ~last.ans
    /\ call_counts["i2c_open"] = 0

\* the wrappers whose body after the checks is one mock_type(int)
OneValue == {"i2c_open", "uart_open", "spi_open", "i2c_write", "uart_write"}

\* the wrappers that copy mock data of the requested length
Copying == {"i2c_read", "spi_transfer"}

\* the receive buffer and the length among the arguments of a copying call
RxOf(l) == l.args[2]
LenOf(l) == l.args[3]

\* C4: a call of an open or write wrapper that passes its parameter checks,
\* with a value queued, returns; it removes exactly one queued value of that
\* wrapper, the oldest, and returns it.  A call of i2c_read or spi_transfer
\* with a non-NULL receive buffer and a length above 0 that passes its checks,
\* with two values queued, removes exactly those two, the data pointer first
\* and the return code second, and returns the second.
C4_ReturnsQueued ==
    [][last'.op = "call" /\ last'.fail # "expect" =>
         LET f == last'.name
             q == retq[f]
         IN /\ (f \in OneValue /\ Len(q) >= 1) =>
                  /\ last'.fail = ""
                  /\ last'.popped = <<q[1]>>
                  /\ last'.ret = q[1]
                  /\ retq' = [retq EXCEPT ![f] = Tail(q)]
            /\ (f \in Copying /\ RxOf(last') # NULL /\ LenOf(last') > 0
                  /\ Len(q) >= 2) =>
                  /\ last'.fail = ""
                  /\ last'.popped = <<q[1], q[2]>>
                  /\ last'.ret = q[2]
                  /\ retq' = [retq EXCEPT ![f] = Tail(Tail(q))]]_vars

\* i2c_read with a buffer took a data pointer, then the return code -1
C4_Witness ==
    /\ IsCall("i2c_read")
    /\ last.fail = ""
    /\ RxOf(last) # NULL
    /\ LenOf(last) = MaxLen
    /\ last.popped = <<1, -1>>
    /\ last.ret = -1

\* C5: every wrapper call, whatever becomes of it, adds exactly one to the
\* counter of its own name and leaves the other ten as they were; a call
\* that a parameter check or an empty queue cuts short is counted too.
C5_CountsEveryCall ==
    [][last'.op = "call" =>
         /\ last'.name \in Names
         /\ call_counts' = [call_counts EXCEPT ![last'.name] = @ + 1]]_vars

\* a call failed by a parameter check has been counted
C5_Witness ==
    /\ IsCall("uart_read")
    /\ last.fail = "expect"
    /\ last.checked = <<"len", "timeout_ms">>
    /\ call_counts["uart_read"] = 1
    /\ TotalCount(call_counts) = 1

\* C6: a call of uart_read that passes its checks.  With a non-NULL buffer,
\* len above 0 and a non-NULL queued data pointer followed by a queued mock
\* length, it removes exactly those two values, copies exactly
\* min(len, mock length) bytes of the mock data, returns that number, which
\* never exceeds len, and leaves the rest of the queue alone.  In every other
\* case (buffer NULL, len 0, or queued data pointer NULL) it copies nothing
\* and returns the next queued value.
C6_UartRead ==
    [][(last'.op = "call" /\ last'.name = "uart_read" /\ last'.fail # "expect") =>
         LET q == retq["uart_read"]
             buffer == last'.args[1]
             len == last'.args[2]
             wants == buffer # NULL /\ len > 0
             n == MinLen(len, q[2])
         IN IF wants /\ Len(q) >= 1 /\ q[1] # NULL
            THEN Len(q) >= 2 =>
                   /\ last'.fail = ""
                   /\ last'.popped = <<q[1], q[2]>>
                   /\ retq' = [retq EXCEPT !["uart_read"] = Tail(Tail(q))]
                   /\ last'.copied = n
                   /\ last'.ret = n
                   /\ last'.ret <= len
                   /\ last'.buf =
                        [i \in 1 .. MaxLen |-> IF i <= n THEN Mem(q[1])[i] ELSE 0]
            ELSE /\ last'.copied = 0
                 /\ last'.buf = Buffer(buffer)
                 /\ (wants /\ Len(q) >= 2) =>
                       /\ last'.fail = ""
                       /\ last'.popped = <<NULL, q[2]>>
                       /\ last'.ret = q[2]
                 /\ (~wants /\ Len(q) >= 1) =>
                       /\ last'.fail = ""
                       /\ last'.popped = <<q[1]>>
                       /\ last'.ret = q[1]]_vars

\* uart_read copied one byte of two asked for: the mock length was shorter
C6_Witness ==
    /\ IsCall("uart_read")
    /\ last.fail = ""
    /\ last.args[2] = 2
    /\ last.popped = <<1, 1>>
    /\ last.copied = 1
    /\ last.ret = 1
    /\ last.buf[1] = Mem(1)[1]
    /\ last.buf[2] = 0

\* C7: a call of i2c_read or spi_transfer that passes its checks.  When the
\* queued data pointer is NULL the receive buffer is left as it was and the
\* next queued value is returned; when the receive buffer is NULL or the
\* length is 0 no data pointer is taken: only the return code is removed.
C7_NullData ==
    [][(last'.op = "call" /\ last'.name \in Copying /\ last'.fail # "expect") =>
         LET f == last'.name
             q == retq[f]
             wants == RxOf(last') # NULL /\ LenOf(last') > 0
         IN /\ (wants /\ Len(q) >= 2 /\ q[1] = NULL) =>
                  /\ last'.fail = ""
                  /\ last'.buf = Buffer(RxOf(last'))
                  /\ last'.copied = 0
                  /\ last'.ret = q[2]
            /\ (~wants /\ Len(q) >= 1) =>
                  /\ last'.fail = ""
                  /\ last'.popped = <<q[1]>>
                  /\ last'.ret = q[1]
                  /\ last'.copied = 0
                  /\ retq' = [retq EXCEPT ![f] = Tail(q)]]_vars

\* i2c_read was given NULL as mock data and -1 as return code
C7_Witness ==
    /\ IsCall("i2c_read")
    /\ last.fail = ""
    /\ RxOf(last) # NULL
    /\ LenOf(last) = 2
    /\ last.popped = <<NULL, -1>>
    /\ last.ret = -1
    /\ last.buf = Buffer(RxOf(last))

Closers == {"i2c_close", "uart_close", "spi_close"}

\* C8: a call of a close wrapper returns 0 for every fd in every state,
\* checks no parameter and takes no queued value: it adds one to its own
\* counter and changes nothing else.
C8_CloseReturnsZero ==
    [][(last'.op = "call" /\ last'.name \in Closers) =>
         /\ last'.fail = ""
         /\ last'.ret = 0
         /\ last'.checked = <<>>
         /\ last'.popped = <<>>
         /\ call_counts' = [call_counts EXCEPT ![last'.name] = @ + 1]
         /\ UNCHANGED <<retq, expq, pc>>]_vars

\* spi_close returned 0 for a negative fd while a value was queued
C8_Witness ==
    /\ IsCall("spi_close")
    /\ last.args = <<-1>>
    /\ last.ret = 0
    /\ call_counts["spi_close"] = MaxCalls
    /\ Len(retq["spi_open"]) = 1

Checking == {"i2c_write", "uart_write", "spi_transfer"}

\* the name of the data pointer parameter of a checking wrapper
DataParam(f) == IF f = "spi_transfer" THEN "tx_buf" ELSE "data"

\* whether the call passed a non-NULL data pointer with a length above 0
HasData(l) ==
    CASE l.name = "i2c_write" -> l.args[2] # NULL /\ l.args[3] > 0
      [] l.name = "uart_write" -> l.args[1] # NULL /\ l.args[2] > 0
      [] l.name = "spi_transfer" -> l.args[1] # NULL /\ l.args[3] > 0

\* the checks the claim says the call makes, in order
CheckOrder(l) ==
    (CASE l.name = "i2c_write" -> <<"cmd", "data_len">>
       [] l.name = "uart_write" -> <<"len">>
       [] l.name = "spi_transfer" -> <<"len">>)
    \o (IF HasData(l) THEN <<DataParam(l.name)>> ELSE <<>>)

\* C9: i2c_write checks cmd, data_len, data; uart_write checks len, data;
\* spi_transfer checks len, tx_buf, in that order and stopping at the first
\* check that fails; the data / tx_buf check is on the list exactly when the
\* pointer is non-NULL and the length above 0, so a returning call with a
\* NULL pointer or a length of 0 leaves the data expectations as they were.
C9_CheckOrder ==
    [][(last'.op = "call" /\ last'.name \in Checking) =>
         LET f == last'.name
             k == <<f, DataParam(f)>>
         IN /\ IsPrefix(last'.checked, CheckOrder(last'))
            /\ last'.checked # <<>>
            /\ last'.fail # "expect" => last'.checked = CheckOrder(last')
            /\ (\E i \in 1 .. Len(last'.checked) : last'.checked[i] = k[2])
                  => HasData(last')
            /\ (~HasData(last') /\ last'.fail = "") => expq'[k] = expq[k]]_vars

\* i2c_write with a NULL data pointer returned and the data expectation
\* recorded for it is still pending
C9_Witness ==
    /\ IsCall("i2c_write")
    /\ last.fail = ""
    /\ last.args[2] = NULL
    /\ last.args[3] > 0
    /\ last.checked = <<"cmd", "data_len">>
    /\ expq[<<"i2c_write", "data">>] # <<>>

\* C10: the four runner hooks return 0, and neither they nor mock_cleanup
\* change a counter: no step the runner takes outside a test body changes
\* one, so the counts a test body leaves are those the next one starts with.
C10_HooksKeepCounts ==
    [][/\ last'.op \in HookOps => (last'.ret = 0 /\ call_counts' = call_counts)
       /\ last'.op = "mock_cleanup" => call_counts' = call_counts
       /\ pc # "test" => (last'.op \in HookOps /\ call_counts' = call_counts)
       /\ last'.op = "test_return" => call_counts' = call_counts]_vars

\* a test body starts with the counts an earlier one left
C10_Witness ==
    /\ pc = "test"
    /\ last.op = "test_setup"
    /\ call_counts["i2c_write"] = 1
    /\ call_counts["spi_close"] = 1

====
